---- MODULE Spec2Model ----
(***************************************************************************)
(* A model of the NeuroHack conversational memory backend:                 *)
(*   - the graph store behind MemoryManager (memory_manager.py),           *)
(*   - the Memory Gardener write-back Pipeline.run_async_update            *)
(*     (pipeline.py), one graph call per step,                             *)
(*   - the per-turn state machine Pipeline.process_turn (pipeline.py),     *)
(*   - the request handler chat_endpoint (main.py),                        *)
(*   - the retrieval de-duplication and the context rendering of           *)
(*     process_turn as functions of their inputs.                          *)
(***************************************************************************)
EXTENDS Integers, Sequences, FiniteSets, TLC

\* ---------------------------------------------------------------- bounds
MaxNodes == 2
MaxId == 2
MaxKey == 1
NumUsers == 1
MaxLen == 7
MaxEdits == 2
MaxList == 2
MaxTime == 3
MaxTtl == 2
MaxCount == 2
MaxVal == 2
MaxChunk == 12
MaxTerms == 3
MaxText == 4

Users == 1..NumUsers
Ids == 1..MaxId
Keys == 1..MaxKey

\* The node labels of the extraction prompt (pipeline.py:571).  Constraint,
\* Instruction and Commitment take the same branch as Preference.
Labels == {"Preference", "Fact", "Entity"}
NamedLabels == {"Preference", "Constraint", "Instruction", "Commitment"}

VARIABLES
    driver,     \* MemoryManager.driver is connected (FALSE: "Mock Mode")
    users,      \* ids of the User nodes in the graph store
    nodes,      \* the other nodes, in creation order: the index is the node's identity
    edges,      \* relationships [t, s, d]; s < 0 is the User node -s
    cfg,        \* which providers Pipeline.__init__ built
    par,        \* the run's inputs: is the store flaky, the labels the extraction
                \* uses, is the history of write-backs kept, are the inputs of the
                \* semantic filter kept, the number of write-backs that can be under
                \* way, does the extraction give new named nodes only
    g,          \* the write-backs run_async_update, one per slot
    t,          \* the turn process_turn in progress, or its terminal state
    http,       \* what the last chat_endpoint request ended in
    vec,        \* the vector search of a turn: the chunks, the ranked results, the output
    ctx,        \* the reconciliation of a turn: its inputs and the context it renders
    sem,        \* the semantic filter of the write-back under way: its inputs and
                \* what it wrote to the vector store
    llm,        \* the generation call under way: provider, backend, attempts, result
    hot         \* the clock, and two HotMemory objects given the same calls: one
                \* built with Redis reachable, one built without

vars == <<driver, users, nodes, edges, cfg, par, g, t, http, vec, ctx, sem, llm, hot>>
graph == <<driver, users, nodes, edges, cfg, par>>

\* ------------------------------------------------------------ graph store
NodeIdx == DOMAIN nodes

\* MATCH (n:<label> {id: $id})
MatchNodes(ns, label, id) ==
    {i \in DOMAIN ns : ns[i].label = label /\ ns[i].id = id}

\* uuid.uuid4(): an id no node carries
FreshIds == {i \in Ids : \A n \in NodeIdx : nodes[n].id # i}

\* CREATE in place of MERGE: insert-by-id
AddGraphNodeInsert(ns, label, id, key, status) ==
    Append(ns, [label |-> label, id |-> id, key |-> key,
                status |-> IF status = "none" THEN "active" ELSE status,
                vu |-> FALSE])

\* MERGE (n:<label> {id: $id}) SET n += $props, with the defaults of
\* add_graph_node: status 'active' when the properties carry none.
AddGraphNode(ns, label, id, key, status) ==
    LET M == MatchNodes(ns, label, id)
        st == IF status = "none" THEN "active" ELSE status
    IN  IF M = {}
        THEN Append(ns, [label |-> label, id |-> id, key |-> key,
                         status |-> st, vu |-> FALSE])
        ELSE [i \in DOMAIN ns |->
                IF i \in M
                THEN [ns[i] EXCEPT !.key = IF key # 0 THEN key ELSE @,
                                   !.status = st]
                ELSE ns[i]]

\* supersede_node: one statement; no row, hence no change, unless both match.
SupersedeNodes(ns, old, new, label) ==
    LET O == MatchNodes(ns, label, old)
        N == MatchNodes(ns, label, new)
    IN  IF O = {} \/ N = {} THEN ns
        ELSE [i \in DOMAIN ns |->
                IF i \in O THEN [ns[i] EXCEPT !.status = "obsolete", !.vu = TRUE]
                ELSE ns[i]]

SupersedeEdges(ns, es, old, new, label) ==
    LET O == MatchNodes(ns, label, old)
        N == MatchNodes(ns, label, new)
    IN  es \cup {[t |-> "SUPERSEDES", s |-> n, d |-> o] : n \in N, o \in O}

\* create_relationship('User', uid, 'HAS_<LABEL>', label, id)
LinkEdges(us, ns, es, u, label, id) ==
    IF u \in us
    THEN es \cup {[t |-> "HAS", s |-> 0 - u, d |-> i] : i \in MatchNodes(ns, label, id)}
    ELSE es

\* MATCH (n:<label> {id: $id}) SET n.status = 'obsolete', n.archived_at = ...
ArchiveNodes(ns, label, id) ==
    [i \in DOMAIN ns |->
        IF i \in MatchNodes(ns, label, id)
        THEN [ns[i] EXCEPT !.status = "obsolete"] ELSE ns[i]]

\* MATCH (n:Entity {id: $id}) SET n += $props
UpdateEntity(ns, old, id, key, status) ==
    [i \in DOMAIN ns |->
        IF i \in MatchNodes(ns, "Entity", old)
        THEN [ns[i] EXCEPT !.id = IF id # 0 THEN id ELSE @,
                           !.key = IF key # 0 THEN key ELSE @,
                           !.status = IF status # "none" THEN status ELSE @]
        ELSE ns[i]]

\* (u:User {id})-[:HAS_<LABEL>]->(n:<label> {status: 'active'})
ActiveOf(u, label) ==
    {i \in NodeIdx : /\ u \in users
                     /\ [t |-> "HAS", s |-> 0 - u, d |-> i] \in edges
                     /\ nodes[i].label = label
                     /\ nodes[i].status = "active"}

CheckQueryBlind(u, label, key) == {}

\* the three natural-key checks of the Gardener: the ids of the rows
CheckQuery(u, label, key) ==
    {nodes[i].id : i \in {j \in ActiveOf(u, label) : nodes[j].key = key}}

\* the comprehensive query of process_turn
ComprehensiveQuery(u) == UNION {ActiveOf(u, l) : l \in Labels}

\* ------------------------------------------------ Gardener: run_async_update
\* the write-backs that can be under way at a time: chat_endpoint hands each to
\* background_tasks and waits for none (main.py:57-64)
Slots == DOMAIN g
Single == {1}
Pair == {1, 2}

NoCand == [label |-> "none", id |-> 0, key |-> 0, status |-> "none"]

\* a node of updates['nodes']: label, the id of node['id'] (0: absent), the natural
\* key of its properties (name, or statement for a Fact; 0: absent), the status of
\* its properties and its operation (UPDATE is handled as MERGE is)
Candidates ==
    IF par.plain
    THEN [label : par.labs, id : {0}, key : Keys, status : {"none"}, op : {"MERGE"}]
    ELSE [label : par.labs, id : Ids \cup {0}, key : Keys \cup {0},
          status : {"none", "active", "obsolete"}, op : {"MERGE", "DELETE"}]

\* a relationship of updates['relationships'].  HAS stands for HAS_<dl upper-cased>
\* from a User node; a type no query reads is OTHER and is not kept in edges.
RelCands ==
    IF par.plain THEN {}
    ELSE [sl : Labels \cup {"User"}, sid : Ids, t : {"HAS", "OTHER"},
          dl : Labels, did : Ids]

\* the texts a turn can answer with: the model's answer, the empty text, the
\* providers' degraded-service texts (llm_factory.py:127, 130, 221) and the
\* apology of process_turn (pipeline.py:445)
Responses == {"answer", "empty", "quota", "interrupted", "apology"}

ErrorSignatureNoQuota(resp) == resp \in {"interrupted", "apology"}

\* any(err in assistant_response for err in error_signatures) (pipeline.py:455-461)
ErrorSignature(resp) == resp \in {"quota", "interrupted", "apology"}

\* LLMFactory.get_provider("groq") builds GroqProvider on first use, which raises
\* ValueError without GROQ_API_KEY (llm_factory.py:187-190, 356-359)
ContextLlmRaises == cfg = "llama_nokey"

\* does a call of the graph session return (TRUE) or raise (FALSE)
Outcomes == IF par.flaky THEN BOOLEAN ELSE {TRUE}

\* pure and prev are history: the statement of the Fact this write-back and the
\* one before it for the same user wrote, when that MERGE was all they did
\* (0: nothing yet, -1: anything else)
\* the semantic filter before it ran (pipeline.py:499-557)
SIdle == [meaningful |-> FALSE, summary |-> "none", inctx |-> FALSE,
          nn |-> "none", wrote |-> "none"]

\* deg: the assistant response handed over is a degraded-service text; upd: the
\* extraction result waiting at the significance gate; ov: this slot once started
\* a write-back while another one was under way
NoUpd == [kind |-> "none", sig |-> 0, save |-> FALSE]

GIdle == [pc |-> "idle", user |-> 0, cand |-> NoCand, old |-> 0,
          pure |-> 0, prev |-> 0, deg |-> FALSE, upd |-> NoUpd, ov |-> FALSE,
          rel |-> FALSE]

\* the degraded-service texts: the rate-limit text and the failure texts of the
\* providers (llm_factory.py:127, 130, 221) and the apology (pipeline.py:445)
Degraded(resp) == resp \in {"quota", "interrupted", "apology"}

Pure(p, c) ==
    IF ~par.track THEN 0
    ELSE IF p = 0 /\ c.label = "Fact" /\ c.op = "MERGE" /\ c.key # 0
            /\ c.status # "obsolete"
         THEN c.key ELSE 0 - 1

\* "Prevent memory pollution from error messages" (pipeline.py:454-463), then the
\* provider of the property context_llm (pipeline.py:465, 724-726)
GStart(w) ==
    /\ g[w].pc \in {"idle", "done", "raised"}
    /\ \E u \in Users, resp \in Responses :
         g' = [g EXCEPT ![w] =
                 [GIdle EXCEPT !.user = u,
                               !.deg = Degraded(resp),
                               !.ov = g[w].ov \/ \E v \in Slots \ {w} :
                                         g[v].pc \notin {"idle", "done", "raised"},
                               !.prev = IF ~par.track THEN 0
                                        ELSE IF g[w].pc = "done" /\ g[w].user = u
                                             THEN g[w].pure ELSE 0 - 1,
                               !.pc = IF ErrorSignature(resp) THEN "done"
                                      ELSE IF ContextLlmRaises THEN "raised"
                                      ELSE "filter"]]
    /\ sem' = SIdle
    /\ UNCHANGED <<driver, users, nodes, edges, cfg, par, t, http, vec, ctx, llm, hot>>

\* ---- Sub-step 6a, the semantic filter (pipeline.py:499-557)
\* what search_vector_memory(summary, n_results=1) answers: no document, a
\* document equal to the summary, another one at L2 distance under 0.5, another
\* one further away, another one without a distance, or an exception
Neighbours == {"empty", "exact", "near", "far", "nodist", "raise"}

SemanticFilterNoDistance(meaningful, summary, inctx, nn, ok) ==
    IF ~(meaningful /\ summary # "none") THEN "none"
    ELSE IF inctx THEN "none"
    ELSE IF nn \in {"exact", "raise"} THEN "none"
    ELSE IF ok THEN summary ELSE "none"

\* the text handed to add_vector_memory, "none" when it is not called.
\* meaningful, summary: semantic_analysis; inctx: the summary is the content of an
\* item of retrieved_context['vector'], which leaves existing_results unbound
\* (pipeline.py:519-526) and ends the sub-step in its handler; ok: the write returns
SemanticFilter(meaningful, summary, inctx, nn, ok) ==
    IF ~(meaningful /\ summary # "none") THEN "none"
    ELSE IF inctx THEN "none"
    ELSE IF nn \in {"exact", "near", "raise"} THEN "none"
    ELSE IF ok THEN summary ELSE "none"

GFilter(w) ==
    /\ g[w].pc = "filter"
    /\ g' = [g EXCEPT ![w].pc = "extract"]
    /\ IF par.sem
       THEN \E m \in BOOLEAN, s \in {"none", "summary"}, c \in BOOLEAN,
               n \in Neighbours, ok \in BOOLEAN :
              sem' = [meaningful |-> m, summary |-> s, inctx |-> c, nn |-> n,
                      wrote |-> SemanticFilter(m, s, c, n, ok)]
       ELSE UNCHANGED sem
    /\ UNCHANGED <<driver, users, nodes, edges, cfg, par, t, http, vec, ctx, llm, hot>>

\* ---- Sub-step 6b, the graph extraction (pipeline.py:618-624)
\* significance_score: absent (0) or a number; should_save: truthy or not; a
\* score that is no number is "bad"
Sigs == {0, 5, 6, 10}
Updates ==
    {[kind |-> "bad", sig |-> 0, save |-> TRUE]}
        \cup [kind : {"dict"}, sig : Sigs, save : BOOLEAN]

GExtract(w) ==
    /\ g[w].pc = "extract"
    /\ \E u \in Updates : g' = [g EXCEPT ![w].pc = "gate", ![w].upd = u]
    /\ UNCHANGED <<driver, users, nodes, edges, cfg, par, t, http, vec, ctx, sem, llm, hot>>

\* if significance < 6 or not should_save: return (pipeline.py:626-628)
SignificanceMin == 6

GateSaveOnly(upd) ==
    IF upd.kind = "bad" THEN "error"
    ELSE IF ~upd.save THEN "skip" ELSE "save"

Gate(upd) ==
    IF upd.kind = "bad" THEN "error"
    ELSE IF upd.sig < SignificanceMin \/ ~upd.save THEN "skip" ELSE "save"

GGate(w) ==
    /\ g[w].pc = "gate"
    /\ g' = [g EXCEPT ![w].pc = IF Gate(g[w].upd) = "save" THEN "next" ELSE "done",
                      ![w].upd = IF Gate(g[w].upd) = "save" THEN NoUpd ELSE g[w].upd]
    /\ UNCHANGED <<driver, users, nodes, edges, cfg, par, t, http, vec, ctx, sem, llm, hot>>

\* where the loop body goes first for a candidate (pipeline.py:634-692)
FirstCall(c) ==
    IF c.op = "DELETE" \/ c.status = "obsolete"
    THEN (IF c.id # 0 THEN "archive" ELSE "next")
    ELSE IF c.label \in {"Fact", "Entity"}
         THEN (IF c.key # 0 THEN "check" ELSE "add")
         ELSE IF c.label \in NamedLabels /\ c.key # 0 THEN "check" ELSE "add"

\* props: the candidate's properties with node['id'] copied in (pipeline.py:635-639)
Props(c) == [label |-> c.label, id |-> c.id, key |-> c.key, status |-> c.status]

\* for node in updates['nodes']: the next candidate, or the end of the list
GNext(w) ==
    /\ g[w].pc = "next"
    /\ \/ g' = [g EXCEPT ![w].pc = "rels", ![w].cand = NoCand, ![w].old = 0]
       \/ \E c \in Candidates :
            g' = [g EXCEPT ![w].pc = FirstCall(c), ![w].cand = Props(c), ![w].old = 0,
                           ![w].pure = Pure(@, c)]
    /\ UNCHANGED <<driver, users, nodes, edges, cfg, par, t, http, vec, ctx, sem, llm, hot>>

\* run_graph_query raises what the driver raises: the handler of pipeline.py:719
Abort(w) ==
    g' = [g EXCEPT ![w].pc = "done", ![w].cand = NoCand, ![w].old = 0,
                   ![w].pure = IF par.track THEN 0 - 1 ELSE 0]

\* archive_query (pipeline.py:642-650)
GArchive(w) ==
    /\ g[w].pc = "archive"
    /\ \E ok \in Outcomes :
         IF ~driver
         THEN /\ ok
              /\ g' = [g EXCEPT ![w].pc = "next"]
              /\ UNCHANGED nodes
         ELSE IF ok
              THEN /\ nodes' = ArchiveNodes(nodes, g[w].cand.label, g[w].cand.id)
                   /\ g' = [g EXCEPT ![w].pc = "next"]
              ELSE /\ Abort(w)
                   /\ UNCHANGED nodes
    /\ UNCHANGED <<driver, users, edges, cfg, par, t, http, vec, ctx, sem, llm, hot>>

\* the natural-key check queries (pipeline.py:655-692); existing[0] is any row
GCheck(w) ==
    /\ g[w].pc = "check"
    /\ LET c == g[w].cand
           rows == IF driver THEN CheckQuery(g[w].user, c.label, c.key) ELSE {}
       IN  \E ok \in Outcomes :
             IF ~ok
             THEN driver /\ Abort(w)
             ELSE IF rows = {}
                  THEN g' = [g EXCEPT ![w].pc = "add"]
                  ELSE IF c.label = "Fact"
                       THEN g' = [g EXCEPT ![w].pc = "next"]
                       ELSE \E o \in rows :
                              g' = [g EXCEPT ![w].old = o,
                                             ![w].pc = IF c.label = "Entity"
                                                       THEN "update" ELSE "add"]
    /\ UNCHANGED <<driver, users, nodes, edges, cfg, par, t, http, vec, ctx, sem, llm, hot>>

\* update_query of an Entity found by name (pipeline.py:678-684)
GUpdate(w) ==
    /\ g[w].pc = "update"
    /\ \E ok \in Outcomes :
         IF ok
         THEN /\ nodes' = UpdateEntity(nodes, g[w].old, g[w].cand.id,
                                       g[w].cand.key, g[w].cand.status)
              /\ g' = [g EXCEPT ![w].pc = "next"]
         ELSE /\ Abort(w)
              /\ UNCHANGED nodes
    /\ UNCHANGED <<driver, users, edges, cfg, par, t, http, vec, ctx, sem, llm, hot>>

\* self.memory_manager.add_graph_node(label, props) (pipeline.py:695): the id it
\* generates is written into props; what the session raises is logged and dropped
GAdd(w) ==
    /\ g[w].pc = "add"
    /\ LET c == g[w].cand IN
       IF ~driver
       THEN /\ g' = [g EXCEPT ![w].pc = "link"]
            /\ UNCHANGED nodes
       ELSE \E id \in (IF c.id # 0 THEN {c.id} ELSE FreshIds), ok \in Outcomes :
              /\ g' = [g EXCEPT ![w].pc = "link", ![w].cand.id = id]
              /\ IF ok
                 THEN /\ nodes' = AddGraphNode(nodes, c.label, id, c.key, c.status)
                      /\ Len(nodes') <= MaxNodes
                 ELSE UNCHANGED nodes
    /\ UNCHANGED <<driver, users, edges, cfg, par, t, http, vec, ctx, sem, llm, hot>>

\* create_relationship('User', user_id, HAS_<LABEL>, label, props['id'])
\* (pipeline.py:698-702); props['id'] is a KeyError when no id was ever set
GLink(w) ==
    /\ g[w].pc = "link"
    /\ LET c == g[w].cand
           nxt == IF g[w].old # 0 /\ g[w].old # c.id THEN "sup" ELSE "next"
       IN  IF c.id = 0
           THEN /\ Abort(w)
                /\ UNCHANGED edges
           ELSE \E ok \in Outcomes :
                  /\ g' = [g EXCEPT ![w].pc = nxt]
                  /\ IF driver /\ ok
                     THEN edges' = LinkEdges(users, nodes, edges, g[w].user,
                                             c.label, c.id)
                     ELSE UNCHANGED edges
    /\ UNCHANGED <<driver, users, nodes, cfg, par, t, http, vec, ctx, sem, llm, hot>>

\* supersede_node(old_id, props.get('id'), label) (pipeline.py:705-708)
GSup(w) ==
    /\ g[w].pc = "sup"
    /\ LET c == g[w].cand IN
       \E ok \in Outcomes :
         /\ g' = [g EXCEPT ![w].pc = "next"]
         /\ IF driver /\ ok
            THEN /\ nodes' = SupersedeNodes(nodes, g[w].old, c.id, c.label)
                 /\ edges' = SupersedeEdges(nodes, edges, g[w].old, c.id, c.label)
            ELSE UNCHANGED <<nodes, edges>>
    /\ UNCHANGED <<driver, users, cfg, par, t, http, vec, ctx, sem, llm, hot>>

\* MATCH (a:<sl> {id}), (b:<dl> {id}) MERGE (a)-[r:<t>]->(b)
RelEdges(us, ns, es, r) ==
    LET S == IF r.sl = "User"
             THEN {0 - u : u \in {v \in us : v = r.sid}}
             ELSE MatchNodes(ns, r.sl, r.sid)
        D == MatchNodes(ns, r.dl, r.did)
    IN  IF r.t = "OTHER" THEN es
        ELSE es \cup {[t |-> r.t, s |-> a, d |-> b] : a \in S, b \in D}

\* the relationship loop inside the node loop: after a relationship the next
\* node of the batch is taken
GRelsInsideNodeLoop(w) ==
    /\ g[w].pc = "rels"
    /\ \/ /\ g' = [g EXCEPT ![w].pc = "done"]
          /\ UNCHANGED edges
       \/ \E r \in RelCands, ok \in Outcomes :
            /\ r.t = "HAS" => r.sl = "User"
            /\ g' = [g EXCEPT ![w].pure = IF par.track THEN 0 - 1 ELSE 0,
                              ![w].rel = TRUE, ![w].pc = "next"]
            /\ IF driver /\ ok
               THEN edges' = RelEdges(users, nodes, edges, r)
               ELSE UNCHANGED edges
    /\ UNCHANGED <<driver, users, nodes, cfg, par, t, http, vec, ctx, sem, llm, hot>>

\* for rel in updates['relationships'] (pipeline.py:710-717): the next
\* relationship, or the end of the list; rel records that create_relationship
\* was called for a relationship of this batch
GRels(w) ==
    /\ g[w].pc = "rels"
    /\ \/ /\ g' = [g EXCEPT ![w].pc = "done"]
          /\ UNCHANGED edges
       \/ \E r \in RelCands, ok \in Outcomes :
            /\ r.t = "HAS" => r.sl = "User"
            /\ g' = [g EXCEPT ![w].pure = IF par.track THEN 0 - 1 ELSE 0,
                              ![w].rel = TRUE]
            /\ IF driver /\ ok
               THEN edges' = RelEdges(users, nodes, edges, r)
               ELSE UNCHANGED edges
    /\ UNCHANGED <<driver, users, nodes, cfg, par, t, http, vec, ctx, sem, llm, hot>>

Gardener(w) ==
    \/ GStart(w)
    \/ GFilter(w)
    \/ GExtract(w)
    \/ GGate(w)
    \/ GNext(w)
    \/ GArchive(w)
    \/ GCheck(w)
    \/ GUpdate(w)
    \/ GAdd(w)
    \/ GLink(w)
    \/ GSup(w)
    \/ GRels(w)

\* ------------------------------------------ llm_factory: generation calls
Providers == {"gemini", "groq", "llama"}
Cloud == {"gemini", "groq"}

\* stop=stop_after_attempt(3)
StopAfterAttempt == 3

\* what the backend does at an attempt: answers, fails with an error whose text
\* holds "429", fails with another error
Conds == {"ok", "429", "err"}

\* what the backend answers. generate_text: a text, or no text at all
\* (response.text and message.content are optional; the local model always
\* gives a str). generate_json: the text of a JSON object, the same in a
\* ```json fence, the same inside prose, the text of a JSON array, of a JSON
\* scalar, prose with braces that hold no JSON, prose without braces, no text.
\* Groq is called with response_format json_object and answers with the text of
\* an object or with none
Outputs(prov, op) ==
    IF op = "text"
    THEN (IF prov = "llama" THEN {"text"} ELSE {"text", "none"})
    ELSE IF prov = "groq" THEN {"object", "none"}
    ELSE {"object", "fenced", "embedded", "array", "scalar", "braces", "garbage"}
             \cup (IF prov = "llama" THEN {} ELSE {"none"})

\* "429" not in str(e)
IsRetryableError(c) == c # "429"

\* json.loads(text): the kind of value parsed, "fail" for JSONDecodeError
JsonLoads(out) ==
    IF out \in {"object", "array", "scalar"} THEN out ELSE "fail"

\* _parse_json of the Gemini and the local provider: the fences are cut, the
\* text is parsed, and on JSONDecodeError the text from the first "{" to the
\* last "}" is parsed; {} when that fails or there is no "{"
ParseJson(out) ==
    IF out = "fenced" THEN "object"
    ELSE IF JsonLoads(out) # "fail" THEN JsonLoads(out)
    ELSE IF out = "embedded" THEN "object"
    ELSE "empty"

CaughtNone(prov) == FALSE

\* the body of generate_text and generate_json is one try/except Exception
Caught(prov) == prov \in Cloud

\* generate_text and generate_json are decorated with @retry
Retried(prov) == prov \in Cloud

\* the value the body returns when the backend answers
Answer(prov, op, out) ==
    IF op = "text" THEN out
    ELSE IF prov = "groq" THEN (IF JsonLoads(out) = "fail" THEN "empty" ELSE JsonLoads(out))
    ELSE IF out = "none" THEN "empty"
    ELSE ParseJson(out)

\* the value the except branch returns
Fallback(prov, op, c) ==
    IF op = "json" THEN "empty"
    ELSE IF prov = "gemini" /\ c = "429" THEN "quota"
    ELSE "interrupted"

\* text and value: the text a backend answered and what generate_json made of it
LIdle == [pc |-> "idle", prov |-> "none", op |-> "none",
          cond |-> [k \in 1..StopAfterAttempt |-> "ok"], out |-> "none",
          attempts |-> 0, result |-> "none", text |-> <<>>, value |-> <<>>]

LCall ==
    /\ llm.pc \in {"idle", "returned", "raised"}
    /\ \E prov \in Providers, op \in {"text", "json"} :
         \E cond \in [1..StopAfterAttempt -> Conds], out \in Outputs(prov, op) :
           llm' = [LIdle EXCEPT !.pc = "attempt", !.prov = prov, !.op = op,
                                !.cond = cond, !.out = out]
    /\ UNCHANGED <<driver, users, nodes, edges, cfg, par, g, t, http, vec, ctx, sem, hot>>

\* one attempt: the body runs; what it raises goes to the retry decorator, which
\* calls again, re-raises what is not retryable, or gives up after the last attempt
LAttempt ==
    /\ llm.pc = "attempt"
    /\ LET k == llm.attempts + 1
           c == llm.cond[k]
       IN  llm' =
             IF c = "ok"
             THEN [llm EXCEPT !.pc = "returned", !.attempts = k,
                              !.result = Answer(llm.prov, llm.op, llm.out)]
             ELSE IF Caught(llm.prov)
             THEN [llm EXCEPT !.pc = "returned", !.attempts = k,
                              !.result = Fallback(llm.prov, llm.op, c)]
             ELSE IF Retried(llm.prov) /\ IsRetryableError(c) /\ k < StopAfterAttempt
             THEN [llm EXCEPT !.attempts = k]
             ELSE [llm EXCEPT !.pc = "raised", !.attempts = k]
    /\ UNCHANGED <<driver, users, nodes, edges, cfg, par, g, t, http, vec, ctx, sem, hot>>

\* ------------------------------------------ llm_factory: the JSON parsers
\* the text of an answer, in pieces: the opening fence with its tag
\* (fence_json, three backticks and "json"), a bare fence (three backticks), the brackets of JSON objects and arrays (keys and scalars left out),
\* and a piece of prose
Pieces == {"fence_json", "fence", "{", "}", "[", "]", "prose"}
JsonTexts == UNION {[1..n -> Pieces] : n \in 0..MaxText}

\* the text is one JSON value: brackets that match, nested one in another
RECURSIVE WellFormed(_)
WellFormed(x) ==
    /\ Len(x) >= 2
    /\ \/ x[1] = "{" /\ x[Len(x)] = "}"
       \/ x[1] = "[" /\ x[Len(x)] = "]"
    /\ Len(x) = 2 \/ WellFormed(SubSeq(x, 2, Len(x) - 1))

JSONDecodeError == <<"JSONDecodeError">>
EmptyObject == <<"{", "}">>

\* json.loads(text): the value, written as its text, or JSONDecodeError
PyLoads(x) == IF WellFormed(x) THEN x ELSE JSONDecodeError

\* text.find("{") and text.rfind("}") + 1, with positions from 1: 0 for not
\* found at find, and the position of the last "}" (0 for none) at rfind
Find(x) ==
    IF \E i \in DOMAIN x : x[i] = "{"
    THEN CHOOSE i \in DOMAIN x : x[i] = "{" /\ \A j \in 1..(i - 1) : x[j] # "{"
    ELSE 0
RFind(x) ==
    IF \E i \in DOMAIN x : x[i] = "}"
    THEN CHOOSE i \in DOMAIN x : x[i] = "}" /\ \A j \in (i + 1)..Len(x) : x[j] # "}"
    ELSE 0

\* _parse_json of GeminiProvider and LlamaLocalProvider
\* (llm_factory.py:161-178, 308-325)
ParseJsonText(text) ==
    LET t1 == IF text # <<>> /\ text[1] = "fence_json" THEN Tail(text) ELSE text
        t2 == IF t1 # <<>> /\ t1[Len(t1)] = "fence" THEN SubSeq(t1, 1, Len(t1) - 1) ELSE t1
    IN  IF PyLoads(t2) # JSONDecodeError THEN PyLoads(t2)
        ELSE IF Find(t2) # 0 /\ PyLoads(SubSeq(t2, Find(t2), RFind(t2))) # JSONDecodeError
             THEN PyLoads(SubSeq(t2, Find(t2), RFind(t2)))
             ELSE EmptyObject

\* what generate_json returns for the text the backend answered: the Groq
\* provider calls json.loads on it inside its try (llm_factory.py:244-251)
GenerateJson(prov, text) ==
    IF prov = "groq"
    THEN (IF PyLoads(text) # JSONDecodeError THEN PyLoads(text) ELSE EmptyObject)
    ELSE ParseJsonText(text)

\* generate_json of a provider over an answered text
LParse ==
    /\ llm.pc = "idle"
    /\ \E prov \in Providers, text \in JsonTexts :
         llm' = [LIdle EXCEPT !.pc = "parsed", !.prov = prov, !.op = "json",
                              !.text = text, !.value = GenerateJson(prov, text)]
    /\ UNCHANGED <<driver, users, nodes, edges, cfg, par, g, t, http, vec, ctx, sem, hot>>

\* ------------------------------------------------------ hot_memory: HotMemory
Modes == {"up", "down"}
Fps == {1}
Terms == {1, 2}

\* response_data: a dict with string keys, the same dict with int keys, an object
\* json cannot serialise; v tells two payloads of a kind apart
PayloadKinds == {"strkeys", "intkeys", "object"}
Payloads == [kind : PayloadKinds, v : 1..MaxVal]
NoPayload == [kind |-> "none", v |-> 0]

\* json.dumps(response_data) raises TypeError
DumpsRaises(p) == p.kind = "object"

\* json.dumps(response_data): the text; int keys are written as strings
Dumps(p) == p.v

\* json.loads(cached)
Loads(text) == [kind |-> "strkeys", v |-> text]

NoEntry == [data |-> NoPayload, expiry |-> 0]
NoKey == [text |-> 0, expiry |-> 0]

\* HotMemory.__init__ (hot_memory.py:7-27)
HotMemory(mode) ==
    [is_connected |-> mode = "up",
     local_cache |-> [fp \in Fps |-> NoEntry],
     local_trends |-> <<>>,
     redis |-> [fp \in Fps |-> NoKey],
     zset |-> [term \in Terms |-> 0],
     ret |-> NoPayload,
     top |-> <<>>]

NoCall == [op |-> "none", fp |-> 0]
NoSet == [p |-> NoPayload, at |-> 0, ttl |-> 0]

\* now: time.time(); call: the last call; last: the last save_to_cache per key
\* conc: the local cache and the calls in progress when threads share it
Threads == {1, 2}
ConcFps == {1, 2}
ThIdle == [pc |-> "idle", fp |-> 0, entry |-> NoEntry, ret |-> NoPayload]
ConcIdle == [cache |-> [fp \in ConcFps |-> NoEntry], th |-> [i \in Threads |-> ThIdle]]

\* the characters of user ids and messages: a letter in both cases, a blank
\* and the separator of get_query_hash
Chars == {"a", "A", " ", ":"}
MaxStr == 2
UserIds == UNION {[1..n -> {"a", ":"}] : n \in 1..MaxStr}
Messages == UNION {[1..n -> Chars] : n \in 0..MaxStr}

\* str.strip(): the text without its leading and trailing blanks
RECURSIVE Strip(_)
Strip(m) ==
    IF m = <<>> THEN m
    ELSE IF Head(m) = " " THEN Strip(Tail(m))
    ELSE IF m[Len(m)] = " " THEN Strip(SubSeq(m, 1, Len(m) - 1))
    ELSE m

\* str.lower()
Lower(m) == [i \in DOMAIN m |-> IF m[i] = "A" THEN "a" ELSE m[i]]

\* message.strip().lower()
Normalized(m) == Lower(Strip(m))

\* get_query_hash: md5 of f"{user_id}:{message.strip().lower()}"; the digest is
\* one-to-one on texts of this size, so the fingerprint is the hashed text
GetQueryHash(uid, m) == uid \o <<":">> \o Normalized(m)

KeyIdle == [pc |-> "idle", su |-> <<>>, sm |-> <<>>, gu |-> <<>>, gm |-> <<>>,
            hit |-> FALSE]

HIdle == [now |-> 0, inst |-> [m \in Modes |-> HotMemory(m)],
          call |-> NoCall, last |-> [fp \in Fps |-> NoSet], conc |-> ConcIdle,
          key |-> KeyIdle]

\* self.r.get(key): the text of a key that has not expired, 0 for None
RedisGet(h, fp, now) ==
    IF h.redis[fp].text # 0 /\ now < h.redis[fp].expiry THEN h.redis[fp].text ELSE 0

\* check_cache (hot_memory.py:33-53)
CheckCache(h, fp, now) ==
    IF h.is_connected /\ RedisGet(h, fp, now) # 0
    THEN [h EXCEPT !.ret = Loads(RedisGet(h, fp, now))]
    ELSE IF h.local_cache[fp] # NoEntry
         THEN (IF now < h.local_cache[fp].expiry
               THEN [h EXCEPT !.ret = h.local_cache[fp].data]
               ELSE [h EXCEPT !.ret = NoPayload, !.local_cache[fp] = NoEntry])
         ELSE [h EXCEPT !.ret = NoPayload]

\* save_to_cache (hot_memory.py:55-68): setex inside try/except: pass
SaveToCache(h, fp, p, ttl, now) ==
    LET r == IF h.is_connected /\ ~DumpsRaises(p)
             THEN [h.redis EXCEPT ![fp] = [text |-> Dumps(p), expiry |-> now + ttl]]
             ELSE h.redis
    IN  [h EXCEPT !.redis = r,
                  !.local_cache[fp] = [data |-> p, expiry |-> now + ttl],
                  !.ret = NoPayload]

\* self.local_trends[term] = self.local_trends.get(term, 0) + 1: a dict keeps
\* the order in which its keys were first set
Bump(tr, term) ==
    IF \E i \in DOMAIN tr : tr[i][1] = term
    THEN [i \in DOMAIN tr |-> IF tr[i][1] = term THEN <<term, tr[i][2] + 1>> ELSE tr[i]]
    ELSE Append(tr, <<term, 1>>)

\* track_trends (hot_memory.py:70-80), one term
TrackTrends(h, term) ==
    [h EXCEPT !.zset[term] = IF h.is_connected THEN @ + 1 ELSE @,
              !.local_trends = Bump(@, term),
              !.ret = NoPayload]

\* the first n elements
Take(sq, n) == SubSeq(sq, 1, IF n < Len(sq) THEN n ELSE Len(sq))

\* ZREVRANGE trending:global 0 limit-1 WITHSCORES: the members by falling score,
\* members of one score by falling name
RECURSIVE ZRevRange(_, _)
ZRevRange(z, left) ==
    IF left = {} THEN <<>>
    ELSE LET m == CHOOSE a \in left :
                    \A b \in left : z[b] < z[a] \/ (z[b] = z[a] /\ b <= a)
         IN  <<<<m, z[m]>>>> \o ZRevRange(z, left \ {m})

\* sorted(self.local_trends.items(), key=lambda x: x[1], reverse=True): stable,
\* items of one count keep the dict's order
RECURSIVE SortedTrends(_, _)
SortedTrends(tr, left) ==
    IF left = {} THEN <<>>
    ELSE LET m == CHOOSE i \in left :
                    \A j \in left : tr[j][2] < tr[i][2] \/ (tr[j][2] = tr[i][2] /\ i <= j)
         IN  <<tr[m]>> \o SortedTrends(tr, left \ {m})

\* get_trending (hot_memory.py:82-90)
GetTrending(h, limit) ==
    [h EXCEPT !.top = IF h.is_connected
                      THEN Take(ZRevRange(h.zset, {a \in Terms : h.zset[a] > 0}), limit)
                      ELSE Take(SortedTrends(h.local_trends, DOMAIN h.local_trends), limit),
              !.ret = NoPayload]

HSet ==
    \E fp \in Fps, p \in Payloads, ttl \in 1..MaxTtl :
        /\ hot' = [hot EXCEPT
                     !.inst = [m \in Modes |-> SaveToCache(hot.inst[m], fp, p, ttl, hot.now)],
                     !.call = [op |-> "set", fp |-> fp],
                     !.last[fp] = [p |-> p, at |-> hot.now, ttl |-> ttl]]
        /\ UNCHANGED <<graph, g, t, http, vec, ctx, sem, llm>>

HGet ==
    \E fp \in Fps :
        /\ hot' = [hot EXCEPT
                     !.inst = [m \in Modes |-> CheckCache(hot.inst[m], fp, hot.now)],
                     !.call = [op |-> "get", fp |-> fp]]
        /\ UNCHANGED <<graph, g, t, http, vec, ctx, sem, llm>>

HIncr ==
    \E term \in Terms :
        /\ \A m \in Modes : \A i \in DOMAIN hot.inst[m].local_trends :
               hot.inst[m].local_trends[i][1] = term =>
                   hot.inst[m].local_trends[i][2] < MaxCount
        /\ hot' = [hot EXCEPT
                     !.inst = [m \in Modes |-> TrackTrends(hot.inst[m], term)],
                     !.call = [op |-> "incr", fp |-> 0]]
        /\ UNCHANGED <<graph, g, t, http, vec, ctx, sem, llm>>

HTop ==
    \E limit \in 1..2 :
        /\ hot' = [hot EXCEPT
                     !.inst = [m \in Modes |-> GetTrending(hot.inst[m], limit)],
                     !.call = [op |-> "top", fp |-> 0]]
        /\ UNCHANGED <<graph, g, t, http, vec, ctx, sem, llm>>

\* the clock moves on between two calls
HTick ==
    /\ hot.now < MaxTime
    /\ hot' = [hot EXCEPT !.now = @ + 1, !.call = NoCall]
    /\ UNCHANGED <<graph, g, t, http, vec, ctx, sem, llm>>

\* ---- the local path of the cache, statement by statement, for calls that
\* run in threads over one HotMemory without Redis; no statement holds a lock
\* save_to_cache (hot_memory.py:64-67): the dict assignment
CSet(i) ==
    /\ hot.conc.th[i].pc \in {"idle", "returned"}
    /\ \E fp \in ConcFps, v \in 1..MaxVal :
         hot' = [hot EXCEPT !.conc.cache[fp] =
                    [data |-> [kind |-> "strkeys", v |-> v], expiry |-> hot.now + 1]]
    /\ UNCHANGED <<graph, g, t, http, vec, ctx, sem, llm>>

\* check_cache is called
CBegin(i) ==
    /\ hot.conc.th[i].pc \in {"idle", "returned"}
    /\ \E fp \in ConcFps :
         hot' = [hot EXCEPT !.conc.th[i] = [ThIdle EXCEPT !.pc = "in", !.fp = fp]]
    /\ UNCHANGED <<graph, g, t, http, vec, ctx, sem, llm>>

\* if qh in self.local_cache (hot_memory.py:44), else return None (53)
CIn(i) ==
    /\ hot.conc.th[i].pc = "in"
    /\ hot' = [hot EXCEPT !.conc.th[i].pc =
                  IF hot.conc.cache[hot.conc.th[i].fp] # NoEntry THEN "read" ELSE "returned"]
    /\ UNCHANGED <<graph, g, t, http, vec, ctx, sem, llm>>

\* entry = self.local_cache[qh] (hot_memory.py:46): KeyError without the key
CRead(i) ==
    /\ hot.conc.th[i].pc = "read"
    /\ LET e == hot.conc.cache[hot.conc.th[i].fp]
       IN  hot' = IF e = NoEntry
                  THEN [hot EXCEPT !.conc.th[i].pc = "failed"]
                  ELSE [hot EXCEPT !.conc.th[i].pc = "time", !.conc.th[i].entry = e]
    /\ UNCHANGED <<graph, g, t, http, vec, ctx, sem, llm>>

\* if time.time() < entry['expiry']: return entry['data'] (hot_memory.py:47-49)
CTime(i) ==
    /\ hot.conc.th[i].pc = "time"
    /\ hot' = IF hot.now < hot.conc.th[i].entry.expiry
              THEN [hot EXCEPT !.conc.th[i].pc = "returned",
                               !.conc.th[i].ret = hot.conc.th[i].entry.data]
              ELSE [hot EXCEPT !.conc.th[i].pc = "del"]
    /\ UNCHANGED <<graph, g, t, http, vec, ctx, sem, llm>>

\* del self.local_cache[qh] (hot_memory.py:51): KeyError without the key; then
\* return None
CDel(i) ==
    /\ hot.conc.th[i].pc = "del"
    /\ hot' = IF hot.conc.cache[hot.conc.th[i].fp] = NoEntry
              THEN [hot EXCEPT !.conc.th[i].pc = "failed"]
              ELSE [hot EXCEPT !.conc.th[i].pc = "returned",
                               !.conc.cache[hot.conc.th[i].fp] = NoEntry]
    /\ UNCHANGED <<graph, g, t, http, vec, ctx, sem, llm>>

Conc(i) == CSet(i) \/ CBegin(i) \/ CIn(i) \/ CRead(i) \/ CTime(i) \/ CDel(i)

\* ------------------------------------------------------ process_turn
Stages == <<"temporal", "planner", "retrieval", "recon", "synth", "response">>

TIdle == [pc |-> "idle", user |-> 0, logs |-> {}, ran |-> <<>>, resp |-> "none",
          gen |-> FALSE, search |-> FALSE, graph |-> {}]

\* self.fast_llm: GroqProvider, or LlamaLocalProvider under FORCE_LOCAL
FastLlm == IF cfg = "groq" THEN "groq" ELSE "llama"

\* llm_to_use = self.fast_llm if self.fast_llm else self.remote_llm
\* (pipeline.py:72); cfg "nofast" is a Pipeline whose fast_llm is None
LlmToUse == IF cfg = "nofast" THEN "gemini" ELSE FastLlm

\* what generate_json hands back: a dict, {} after a failure (llm_factory.py:247-252,
\* 317-325), another JSON value (json.loads of the local model's text,
\* llm_factory.py:316), or what self.llm raises (llm_factory.py:299)
JsonResults(prov) ==
    IF prov = "groq" THEN {"dict", "failed"}
    ELSE IF prov = "gemini" THEN {"dict", "failed", "nondict"}
    ELSE {"dict", "failed", "nondict", "raise"}

\* what generate_text hands back
TextResults(prov) ==
    IF prov = "groq" THEN {"answer", "empty", "interrupted"}
    ELSE IF prov = "gemini" THEN {"answer", "empty", "quota", "interrupted"}
    ELSE {"answer", "empty", "raise"}

\* except Exception: the Error response (pipeline.py:440-448)
ErrorState(s, log) ==
    [s EXCEPT !.pc = "error", !.resp = "apology", !.logs = @ \cup log]

\* a MemoryManager that had the method
EnsureUserExistsDefined == FALSE

\* self.memory_manager.ensure_user_exists(user_id) (pipeline.py:138): MemoryManager
\* (memory_manager.py:8-148) defines no such method, the call is an AttributeError
EnsureUserExistsRaises == TRUE

\* a stage that went on without its log entry
AdvanceUnlogged(s, stage, log, next) ==
    [s EXCEPT !.pc = next, !.ran = Append(@, stage)]

Advance(s, stage, log, next) ==
    [s EXCEPT !.pc = next, !.ran = Append(@, stage), !.logs = @ \cup log]

\* Step 0 (pipeline.py:74-95): the result is logged, then used as a dict
TemporalStage(s, r, override, summary) ==
    IF r = "raise"
    THEN [ErrorState(s, {}) EXCEPT !.ran = Append(@, "temporal"), !.gen = TRUE]
    ELSE IF r = "nondict" \/ (r = "dict" /\ override /\ ~summary)
         THEN [ErrorState(s, {"step0"}) EXCEPT !.ran = Append(@, "temporal"),
                                                 !.gen = @ \/ r = "failed"]
         ELSE [Advance(s, "temporal", {"step0"}, "planner") EXCEPT
                  !.gen = @ \/ r = "failed"]

\* Step 1 (pipeline.py:97-134)
PlannerStage(s, r, needs) ==
    IF r = "raise"
    THEN [ErrorState(s, {}) EXCEPT !.ran = Append(@, "planner"), !.gen = TRUE]
    ELSE IF r = "nondict"
         THEN [ErrorState(s, {"step1"}) EXCEPT !.ran = Append(@, "planner")]
         ELSE [Advance(s, "planner", {"step1"}, "retrieval") EXCEPT
                  !.gen = @ \/ r = "failed",
                  !.search = (r = "dict" /\ needs)]

\* a retrieval whose store call does not return
RetrievalStageWaits(s, ok) == s

\* Step 2 (pipeline.py:136-209)
RetrievalStage(s, ok) ==
    IF EnsureUserExistsRaises
    THEN [ErrorState(s, {}) EXCEPT !.ran = Append(@, "retrieval")]
    ELSE [Advance(s, "retrieval", IF ok THEN {"step2"} ELSE {"step2", "step2_graph_error"},
                  "recon")
            EXCEPT !.graph = IF ok /\ driver THEN ComprehensiveQuery(s.user) ELSE {}]

\* Step 3 (pipeline.py:211-314)
ReconStage(s) == Advance(s, "recon", {"step3"}, "synth")

\* Step 4 (pipeline.py:316-343): self.fast_llm is always a provider
SynthStage(s, r) ==
    IF r = "raise"
    THEN [ErrorState(s, {}) EXCEPT !.ran = Append(@, "synth"), !.gen = TRUE]
    ELSE [Advance(s, "synth", {"step4"}, "response") EXCEPT
             !.resp = r, !.gen = @ \/ r = "interrupted"]

\* the else branch of if self.fast_llm (pipeline.py:344-381): no synthesis call,
\* the response is generated from context_str and the accepted chunks; then
\* response_input is None, the block that binds grounding_metadata
\* (pipeline.py:384-433) is skipped and pipeline.py:438 reads it unbound
DirectStage(s, r) ==
    [ErrorState(s, {"step4", "step5"}) EXCEPT
        !.ran = Append(@, "response"),
        !.gen = @ \/ r \in {"quota", "interrupted"}]

\* the nodes after a stage of process_turn: its store calls are
\* search_vector_memory (pipeline.py:146) and run_graph_query with the MATCH ...
\* RETURN of the comprehensive query (pipeline.py:176-198); none of them writes
StoreAfterArchived(stage, ns) ==
    IF stage = "planner"
    THEN [i \in DOMAIN ns |-> [ns[i] EXCEPT !.status = "obsolete"]]
    ELSE ns

StoreAfter(stage, ns) == ns

\* Step 5 (pipeline.py:384-439): without a synthesis text no final_response is bound
ResponseStage(s, r) ==
    IF s.resp = "empty"
    THEN [ErrorState(s, {}) EXCEPT !.ran = Append(@, "response")]
    ELSE [Advance(s, "response", {"step5"}, "completed") EXCEPT
             !.resp = r, !.gen = @ \/ r \in {"quota", "interrupted"}]

\* process_turn(user_message, user_id)
TStart ==
    /\ t.pc \in {"idle", "completed", "error"}
    /\ \E u \in Users : t' = [TIdle EXCEPT !.pc = "temporal", !.user = u]
    /\ UNCHANGED <<graph, g, http, vec, ctx, sem, llm, hot>>

TStage ==
    /\ t.pc \in {Stages[i] : i \in DOMAIN Stages}
    /\ \E r \in JsonResults(LlmToUse), x \in TextResults(FastLlm),
          y \in TextResults("gemini"), b1 \in BOOLEAN, b2 \in BOOLEAN :
         t' = CASE t.pc = "temporal" -> TemporalStage(t, r, b1, b2)
                [] t.pc = "planner" -> PlannerStage(t, r, b1)
                [] t.pc = "retrieval" -> RetrievalStage(t, b1)
                [] t.pc = "recon" -> ReconStage(t)
                [] t.pc = "synth" -> IF cfg = "nofast" THEN DirectStage(t, y)
                                     ELSE SynthStage(t, x)
                [] t.pc = "response" -> ResponseStage(t, y)
    /\ nodes' = StoreAfter(t.pc, nodes)
    /\ UNCHANGED <<driver, users, edges, cfg, par, g, http, vec, ctx, sem, llm, hot>>

\* chat_endpoint (main.py:49-66): process_turn is called with three arguments and
\* takes two (pipeline.py:65), a TypeError before any stage and before add_task
ProcessTurnArity == 2
ChatEndpointArgs == 3

ChatEndpoint ==
    /\ http' = IF ChatEndpointArgs = ProcessTurnArity THEN "response" ELSE "unhandled"
    /\ http' # http
    /\ UNCHANGED <<graph, g, t, vec, ctx, sem, llm, hot>>


\* ------------------------------------- process_turn: the vector search
\* chunk texts over two letters: a text of MaxLen letters and its near
\* duplicates, with up to MaxEdits letters changed
Texts ==
    {x \in [1..MaxLen -> {1, 2}] : Cardinality({i \in 1..MaxLen : x[i] = 2}) <= MaxEdits}
Chunks == {1, 2}

\* the length of the common block of a and b that starts at a[i] and b[j]
RECURSIVE Run(_, _, _, _, _, _)
Run(a, b, i, j, ahi, bhi) ==
    IF i > ahi \/ j > bhi THEN 0
    ELSE IF a[i] # b[j] THEN 0
         ELSE 1 + Run(a, b, i + 1, j + 1, ahi, bhi)

\* SequenceMatcher.find_longest_match without junk (texts under 200 characters):
\* the longest block a[i..i+k-1] = b[j..j+k-1] inside the two windows, of those
\* the one earliest in a, of those the one earliest in b
FindLongestMatch(a, b, alo, ahi, blo, bhi) ==
    LET D == (alo..ahi) \X (blo..bhi)
        R == [p \in D |-> Run(a, b, p[1], p[2], ahi, bhi)]
        Ks == {R[p] : p \in D}
        k == CHOOSE x \in Ks : \A y \in Ks : y <= x
        m == CHOOSE p \in D :
                /\ R[p] = k
                /\ \A q \in D : R[q] = k =>
                      \/ p[1] < q[1]
                      \/ p[1] = q[1] /\ p[2] <= q[2]
    IN  [i |-> m[1], j |-> m[2], k |-> k]

\* SequenceMatcher.get_matching_blocks: the block, then the same to its left and
\* to its right; the sum of the block sizes
RECURSIVE Matches(_, _, _, _, _, _)
Matches(a, b, alo, ahi, blo, bhi) ==
    IF alo > ahi \/ blo > bhi THEN 0
    ELSE LET m == FindLongestMatch(a, b, alo, ahi, blo, bhi)
         IN  IF m.k = 0 THEN 0
             ELSE m.k + Matches(a, b, alo, m.i - 1, blo, m.j - 1)
                      + Matches(a, b, m.i + m.k, ahi, m.j + m.k, bhi)

\* the threshold 0.85 as a fraction
ThresholdNum == 17
ThresholdDen == 20

\* SequenceMatcher(None, a, b).ratio() > 0.85, the ratio being 2.0 * M / T
Similar(a, b) ==
    LET T == Len(a) + Len(b)
    IN  IF T = 0 THEN TRUE
        ELSE 2 * Matches(a, b, 1, Len(a), 1, Len(b)) * ThresholdDen > ThresholdNum * T

\* n_results of search_vector_memory and the cut vector_results[:10]
NResults == 5
TopResults == 10

\* what the collection returns for one term: up to n_results chunks, ranked
Rankings == {r \in UNION {[1..n -> Chunks] : n \in 0..NResults} :
               \A i, j \in DOMAIN r : i # j => r[i] # r[j]}

RECURSIVE Flatten(_)
Flatten(rs) == IF rs = <<>> THEN <<>> ELSE Head(rs) \o Flatten(Tail(rs))

\* the comparisons of one turn: for chunks d (new) and e (accepted), is
\* SequenceMatcher(None, text of d, text of e).ratio() > 0.85
SimilarChunks(store) ==
    [p \in Chunks \X Chunks |-> Similar(store[p[1]], store[p[2]])]

\* pipeline.py:145-168: a chunk is accepted unless its id was accepted before or
\* its text is similar to an accepted text
RECURSIVE Accept(_, _, _)
Accept(sim, docs, acc) ==
    IF docs = <<>> THEN acc
    ELSE LET d == Head(docs)
             dup == \/ \E i \in DOMAIN acc : acc[i] = d
                    \/ \E i \in DOMAIN acc : sim[<<d, acc[i]>>]
         IN  Accept(sim, Tail(docs), IF dup THEN acc ELSE Append(acc, d))

\* _deduplicate_results(results, threshold=0.85)
RECURSIVE DeduplicateResults(_, _, _)
DeduplicateResults(sim, results, unique) ==
    IF results = <<>> THEN unique
    ELSE LET new == Head(results)
             dup == \E i \in DOMAIN unique : sim[<<new, unique[i]>>]
         IN  DeduplicateResults(sim, Tail(results),
                                IF dup THEN unique ELSE Append(unique, new))

\* the two passes without the cut vector_results[:10]
VectorResultsUncut(sim, rs) ==
    DeduplicateResults(sim, Accept(sim, Flatten(rs), <<>>), <<>>)

\* pipeline.py:141-174
VectorResults(sim, rs) ==
    LET first == Accept(sim, Flatten(rs), <<>>)
        second == DeduplicateResults(sim, first, <<>>)
    IN  SubSeq(second, 1, IF Len(second) < TopResults THEN Len(second) ELSE TopResults)

\* owner: metadata['user_id'] of each chunk of the collection; user: the user
\* of the turn that searched
VIdle == [store |-> <<>>, sim |-> <<>>, res |-> <<>>, out |-> <<>>,
          owner |-> <<>>, user |-> 0]

\* the vector search of one turn, over any rankings of one or two terms
VectorSearch ==
    /\ vec.store # <<>>
    /\ vec.res = <<>>
    /\ \E rs \in UNION {[1..n -> Rankings] : n \in 1..2} :
         vec' = [vec EXCEPT !.res = rs, !.out = VectorResults(vec.sim, rs)]
    /\ UNCHANGED <<graph, g, t, http, ctx, sem, llm, hot>>

\* a larger collection, its texts left out: what the search needs of them is
\* the outcome of each comparison SequenceMatcher(None, d, e).ratio() > 0.85
WideChunks == 1..MaxChunk

\* what the collection returns for one term: n_results neighbouring chunks
Windows == {[i \in 1..NResults |-> a + i] : a \in 0..(MaxChunk - NResults)}

\* the pairs (new, accepted) whose comparison may exceed the threshold; the
\* ratio depends on the order of its arguments, so <<12, 3>> has no mirror
NearPairs == {<<2, 1>>, <<1, 2>>, <<6, 5>>, <<12, 3>>}

\* the vector search of one turn over the larger collection, of up to
\* MaxTerms search terms
RankedSearch ==
    /\ vec.store = <<>>
    /\ vec.sim # <<>>
    /\ vec.res = <<>>
    /\ \E rs \in UNION {[1..n -> Windows] : n \in 1..MaxTerms} :
         vec' = [vec EXCEPT !.res = rs, !.out = VectorResults(vec.sim, rs)]
    /\ UNCHANGED <<graph, g, t, http, ctx, sem, llm, hot>>

\* the users whose write-backs fill the one collection "conversation_memory"
Owners == {1, 2}

\* add_vector_memory(turn_id, summary, metadata={"user_id": user_id, ...})
\* (pipeline.py:541-551, memory_manager.py:36-43): the next chunk, of texts
\* that differ
OwnedAdd ==
    /\ Len(vec.owner) < Cardinality(Chunks)
    /\ \E u \in Owners :
         vec' = [vec EXCEPT !.owner = Append(@, u),
                            !.sim = [p \in Chunks \X Chunks |-> FALSE]]
    /\ UNCHANGED <<graph, g, t, http, ctx, sem, llm, hot>>

\* the vector search of a turn of user u (pipeline.py:141-174): the collection
\* is queried with query_texts and n_results alone (memory_manager.py:45-51)
OwnedSearch ==
    /\ vec.owner # <<>>
    /\ \E u \in Owners :
         \E rs \in UNION {[1..n -> {r \in Rankings :
                                     \A i \in DOMAIN r : r[i] <= Len(vec.owner)}] :
                           n \in 1..2} :
           vec' = [vec EXCEPT !.user = u, !.res = rs, !.out = VectorResults(vec.sim, rs)]
    /\ UNCHANGED <<graph, g, t, http, ctx, sem, llm, hot>>

\* -------------------------------------- process_turn: the reconciliation
\* the keys of structured_graph, in the order of the dict (pipeline.py:213-220)
Sections == <<"preferences", "facts", "entities", "constraints", "commitments",
              "instructions">>

\* what a collected list holds: None or a node with its status
None == [id |-> 0, status |-> "none"]
Collected == {None} \cup [id : Ids, status : {"active", "obsolete", "absent"}]
Lists == UNION {[1..n -> Collected] : n \in 0..MaxList}

\* a filter that lets every node through
KeepUnfiltered(node) == node # None

\* pipeline.py:229: node and isinstance(node, dict) and node.get('status') != 'obsolete'
Keep(node) == node # None /\ node.status # "obsolete"

RECURSIVE Filter(_)
Filter(l) ==
    IF l = <<>> THEN <<>>
    ELSE IF Keep(Head(l)) THEN <<Head(l)>> \o Filter(Tail(l)) ELSE Filter(Tail(l))

\* structured_graph (pipeline.py:213-230): rows is graph_results
StructuredGraph(rows) ==
    [k \in {Sections[i] : i \in DOMAIN Sections} |->
        IF rows = <<>> THEN <<>> ELSE Filter(rows[1][k])]

\* format_nodes (pipeline.py:233-283): one line per node, the branch of
\* Instructions appends none, and a line of its own for an empty list
FormatNodes(l, k) ==
    IF l = <<>> THEN <<[sec |-> k, line |-> "none", id |-> 0]>>
    ELSE IF k = "instructions" THEN <<>>
         ELSE [i \in DOMAIN l |-> [sec |-> k, line |-> "node", id |-> l[i].id]]

Header(k) == [sec |-> k, line |-> "header", id |-> 0]

\* context_str (pipeline.py:285-310): the lines of the template, top to bottom
RECURSIVE GraphSections(_, _)
GraphSections(sg, i) ==
    IF i > Len(Sections) THEN <<>>
    ELSE <<Header(Sections[i])>> \o FormatNodes(sg[Sections[i]], Sections[i])
             \o GraphSections(sg, i + 1)

ContextStr(rows, chunks) ==
    GraphSections(StructuredGraph(rows), 1)
        \o <<Header("semantic"), Header("semantic")>>
        \o (IF chunks = <<>> THEN <<[sec |-> "semantic", line |-> "none", id |-> 0]>>
            ELSE [i \in DOMAIN chunks |->
                    [sec |-> "semantic", line |-> "chunk", id |-> chunks[i]]])

CIdle == [rows |-> <<>>, chunks |-> <<>>, out |-> <<>>, again |-> <<>>]

\* graph_results: no row (mock mode, a failed query) or the one row of the
\* comprehensive query, here with two lists that may hold nodes
GraphResults ==
    {<<>>} \cup
    {<<[k \in {Sections[i] : i \in DOMAIN Sections} |->
           IF k = k1 THEN l1 ELSE IF k = k2 THEN l2 ELSE <<>>]>> :
        k1 \in {Sections[i] : i \in DOMAIN Sections},
        k2 \in {"facts", "instructions"},
        l1 \in Lists, l2 \in {l \in Lists : Len(l) <= 1}}

\* Step 3 over any graph results and accepted chunks
Reconciliation ==
    /\ ctx = CIdle
    /\ sem = SIdle
    /\ llm = LIdle
    /\ hot = HIdle
    /\ \E rows \in GraphResults, n \in 0..2 :
         LET chunks == [i \in 1..n |-> i]
         IN  ctx' = [rows |-> rows, chunks |-> chunks,
                     out |-> ContextStr(rows, chunks), again |-> <<>>]
    /\ UNCHANGED <<graph, g, t, http, vec, sem, llm, hot>>

\* Step 3 once more over the same inputs
ReconciliationAgain ==
    /\ ctx.out # <<>>
    /\ ctx.again = <<>>
    /\ ctx' = [ctx EXCEPT !.again = ContextStr(ctx.rows, ctx.chunks)]
    /\ UNCHANGED <<graph, g, t, http, vec, sem, llm, hot>>

\* the graph after one write-back of a Preference for user 1, or empty
OneNode == [label |-> "Preference", id |-> 1, key |-> 1, status |-> "active", vu |-> FALSE]

Init ==
    /\ driver \in BOOLEAN
    /\ users \in SUBSET Users
    /\ nodes = <<>>
    /\ edges = {}
    /\ cfg \in {"groq", "llama_nokey"}
    /\ par = [flaky |-> FALSE, labs |-> Labels, track |-> FALSE, sem |-> FALSE, slots |-> 1, plain |-> FALSE]
    /\ g = [w \in 1..par.slots |-> GIdle]
    /\ t = TIdle
    /\ http = "none"
    /\ vec = VIdle
    /\ ctx = CIdle
    /\ sem = SIdle
    /\ llm = LIdle
    /\ hot = HIdle

\* write-backs that do not overlap in time
Next == \E w \in Single : Gardener(w)

Spec == Init /\ [][Next]_vars

\* write-backs of Facts alone, with their history
InitFact ==
    /\ driver = TRUE
    /\ users = Users
    /\ nodes = <<>>
    /\ edges = {}
    /\ cfg = "groq"
    /\ par = [flaky |-> FALSE, labs |-> Labels, track |-> TRUE, sem |-> FALSE, slots |-> 1, plain |-> FALSE]
    /\ g = [w \in 1..par.slots |-> GIdle]
    /\ t = TIdle
    /\ http = "none"
    /\ vec = VIdle
    /\ ctx = CIdle
    /\ sem = SIdle
    /\ llm = LIdle
    /\ hot = HIdle

SpecFact == InitFact /\ [][Next]_vars

InitTurn ==
    /\ driver \in BOOLEAN
    /\ users = Users
    /\ \/ nodes = <<>> /\ edges = {}
       \/ nodes = <<OneNode>> /\ edges = {[t |-> "HAS", s |-> 0 - 1, d |-> 1]}
    /\ cfg \in {"groq", "llama_key", "llama_nokey"}
    /\ par = [flaky |-> FALSE, labs |-> Labels, track |-> FALSE, sem |-> FALSE, slots |-> 1, plain |-> FALSE]
    /\ g = [w \in 1..par.slots |-> GIdle]
    /\ t = TIdle
    /\ http = "none"
    /\ vec = VIdle
    /\ ctx = CIdle
    /\ sem = SIdle
    /\ llm = LIdle
    /\ hot = HIdle

NextTurn ==
    \/ TStart
    \/ TStage
    \/ ChatEndpoint

SpecTurn == InitTurn /\ [][NextTurn]_vars

\* the reconciliation of a turn, over its inputs
InitRecon ==
    /\ driver = TRUE
    /\ users = Users
    /\ nodes = <<>>
    /\ edges = {}
    /\ cfg = "groq"
    /\ par = [flaky |-> FALSE, labs |-> Labels, track |-> FALSE, sem |-> FALSE, slots |-> 1, plain |-> FALSE]
    /\ g = [w \in 1..par.slots |-> GIdle]
    /\ t = TIdle
    /\ http = "none"
    /\ vec = VIdle
    /\ ctx = CIdle
    /\ sem = SIdle
    /\ llm = LIdle
    /\ hot = HIdle

\* a collection of any chunk texts
InitRetr ==
    /\ driver = TRUE
    /\ users = Users
    /\ nodes = <<>>
    /\ edges = {}
    /\ cfg = "groq"
    /\ par = [flaky |-> FALSE, labs |-> Labels, track |-> FALSE, sem |-> FALSE, slots |-> 1, plain |-> FALSE]
    /\ g = [w \in 1..par.slots |-> GIdle]
    /\ t = TIdle
    /\ http = "none"
    /\ \E store \in [Chunks -> Texts] :
          vec = [VIdle EXCEPT !.store = store, !.sim = SimilarChunks(store)]
    /\ ctx = CIdle
    /\ sem = SIdle
    /\ llm = LIdle
    /\ hot = HIdle

NextRetr == VectorSearch

SpecRetr == InitRetr /\ [][NextRetr]_vars

\* a collection whose comparisons come out in any way over NearPairs
InitRank ==
    /\ driver = TRUE
    /\ users = Users
    /\ nodes = <<>>
    /\ edges = {}
    /\ cfg = "groq"
    /\ par = [flaky |-> FALSE, labs |-> Labels, track |-> FALSE, sem |-> FALSE, slots |-> 1, plain |-> FALSE]
    /\ g = [w \in 1..par.slots |-> GIdle]
    /\ t = TIdle
    /\ http = "none"
    /\ \E near \in SUBSET NearPairs :
          vec = [VIdle EXCEPT !.sim = [p \in WideChunks \X WideChunks |-> p \in near]]
    /\ ctx = CIdle
    /\ sem = SIdle
    /\ llm = LIdle
    /\ hot = HIdle

NextRank == RankedSearch

SpecRank == InitRank /\ [][NextRank]_vars

NextRecon == Reconciliation \/ ReconciliationAgain

SpecRecon == InitRecon /\ [][NextRecon]_vars

\* two write-backs of new named Preferences that may overlap
InitRace ==
    /\ driver = TRUE
    /\ users = Users
    /\ nodes = <<>>
    /\ edges = {}
    /\ cfg = "groq"
    /\ par = [flaky |-> FALSE, labs |-> {"Preference"}, track |-> FALSE,
              sem |-> FALSE, slots |-> 2, plain |-> TRUE]
    /\ g = [w \in 1..par.slots |-> GIdle]
    /\ t = TIdle
    /\ http = "none"
    /\ vec = VIdle
    /\ ctx = CIdle
    /\ sem = SIdle
    /\ llm = LIdle
    /\ hot = HIdle

NextRace ==
    \E w \in Pair :
        \/ GStart(w) \/ GFilter(w) \/ GExtract(w) \/ GGate(w) \/ GNext(w)
        \/ GCheck(w) \/ GAdd(w) \/ GLink(w) \/ GSup(w) \/ GRels(w)

SpecRace == InitRace /\ [][NextRace]_vars

\* turns of a Pipeline that has no fast role
InitDirect ==
    /\ driver \in BOOLEAN
    /\ users \in SUBSET Users
    /\ \/ nodes = <<>> /\ edges = {}
       \/ nodes = <<OneNode>> /\ edges = {[t |-> "HAS", s |-> 0 - 1, d |-> 1]}
    /\ cfg = "nofast"
    /\ par = [flaky |-> FALSE, labs |-> Labels, track |-> FALSE, sem |-> FALSE, slots |-> 1, plain |-> FALSE]
    /\ g = [w \in 1..par.slots |-> GIdle]
    /\ t = TIdle
    /\ http = "none"
    /\ vec = VIdle
    /\ ctx = CIdle
    /\ sem = SIdle
    /\ llm = LIdle
    /\ hot = HIdle

SpecDirect == InitDirect /\ [][NextTurn]_vars

\* the write-back up to the significance gate, with the inputs of its filter
InitFilter ==
    /\ driver = TRUE
    /\ users = Users
    /\ nodes = <<>>
    /\ edges = {}
    /\ cfg = "groq"
    /\ par = [flaky |-> FALSE, labs |-> Labels, track |-> FALSE, sem |-> TRUE, slots |-> 1, plain |-> FALSE]
    /\ g = [w \in 1..par.slots |-> GIdle]
    /\ t = TIdle
    /\ http = "none"
    /\ vec = VIdle
    /\ ctx = CIdle
    /\ sem = SIdle
    /\ llm = LIdle
    /\ hot = HIdle

NextFilter == \E w \in Single : GStart(w) \/ GFilter(w) \/ GExtract(w) \/ GGate(w)

SpecFilter == InitFilter /\ [][NextFilter]_vars

\* the generation calls of the providers
InitLlm ==
    /\ driver = TRUE
    /\ users = Users
    /\ nodes = <<>>
    /\ edges = {}
    /\ cfg = "groq"
    /\ par = [flaky |-> FALSE, labs |-> Labels, track |-> FALSE, sem |-> FALSE, slots |-> 1, plain |-> FALSE]
    /\ g = [w \in 1..par.slots |-> GIdle]
    /\ t = TIdle
    /\ http = "none"
    /\ vec = VIdle
    /\ ctx = CIdle
    /\ sem = SIdle
    /\ llm = LIdle
    /\ hot = HIdle

NextLlm == LCall \/ LAttempt

SpecLlm == InitLlm /\ [][NextLlm]_vars

\* turns, or write-backs: a turn and a write-back share no state that either
\* of them waits for, so each is followed to its end without the other
InitLive ==
    /\ driver = TRUE
    /\ users = Users
    /\ nodes = <<>>
    /\ edges = {}
    /\ cfg \in {"groq", "llama_key", "llama_nokey"}
    /\ \E labs \in {{"Preference"}, {"Entity"}} :
          par = [flaky |-> FALSE, labs |-> labs, track |-> FALSE, sem |-> FALSE, slots |-> 1, plain |-> FALSE]
    /\ g = [w \in 1..par.slots |-> GIdle]
    /\ t = TIdle
    /\ http = "none"
    /\ vec = VIdle
    /\ ctx = CIdle
    /\ sem = SIdle
    /\ llm = LIdle
    /\ hot = HIdle

\* the store has room for the node of the candidate c (the bound MaxNodes)
Fits(c) ==
    IF c.id = 0 THEN FreshIds # {} /\ Len(nodes) < MaxNodes
    ELSE Len(AddGraphNode(nodes, c.label, c.id, c.key, c.status)) <= MaxNodes

\* no write-back has begun; no turn has begun
NoWriteBack == \A w \in Single : g[w].pc = "idle"
NoTurn == t = TIdle

\* process_turn is called, in a process that runs turns
LiveTStart == NoWriteBack /\ TStart

\* run_async_update is called, in a process that runs write-backs
LiveGStart(w) == NoTurn /\ GStart(w)

\* the next candidate of a list whose nodes the store has room for
LiveGNext(w) ==
    /\ GNext(w)
    /\ g'[w].pc \in {"check", "add"} => Fits(g'[w].cand)

\* a step of a write-back that has begun, every call of it returning
GStep(w) ==
    \/ GFilter(w) \/ GExtract(w) \/ GGate(w) \/ LiveGNext(w) \/ GArchive(w)
    \/ GCheck(w) \/ GUpdate(w) \/ GAdd(w) \/ GLink(w) \/ GSup(w) \/ GRels(w)

\* the node loop and the relationship loop reach the end of their lists
GNextEnd(w) == GNext(w) /\ g'[w].pc = "rels"
GRelsEnd(w) == GRels(w) /\ g'[w].pc = "done"

NextLive ==
    \/ LiveTStart
    \/ TStage
    \/ \E w \in Single :
          \/ LiveGStart(w) \/ GFilter(w) \/ GExtract(w) \/ GGate(w) \/ LiveGNext(w)
          \/ GArchive(w) \/ GCheck(w) \/ GUpdate(w) \/ GAdd(w) \/ GLink(w)
          \/ GSup(w) \/ GRels(w)

\* the loops of pipeline.py:633 and 711 run over finite lists, every stage of a
\* turn and every step of a write-back is taken once its call has returned
SpecLive ==
    /\ InitLive
    /\ [][NextLive]_vars
    /\ WF_vars(TStage)
    /\ \A w \in Single :
          /\ WF_vars(GStep(w))
          /\ SF_vars(GNextEnd(w))
          /\ SF_vars(GRelsEnd(w))

\* write-backs of user 1 over a store that holds a node of another user, 2,
\* written and linked by an earlier write-back of that user
InitCross ==
    /\ driver = TRUE
    /\ users = Users \cup {NumUsers + 1}
    /\ \E label \in {"Preference", "Entity"} :
          nodes = <<[label |-> label, id |-> 1, key |-> 1, status |-> "active", vu |-> FALSE]>>
    /\ edges = {[t |-> "HAS", s |-> 0 - (NumUsers + 1), d |-> 1]}
    /\ cfg = "groq"
    /\ par = [flaky |-> FALSE, labs |-> {"Preference", "Entity"}, track |-> FALSE, sem |-> FALSE, slots |-> 1, plain |-> FALSE]
    /\ g = [w \in 1..par.slots |-> GIdle]
    /\ t = TIdle
    /\ http = "none"
    /\ vec = VIdle
    /\ ctx = CIdle
    /\ sem = SIdle
    /\ llm = LIdle
    /\ hot = HIdle

SpecCross == InitCross /\ [][Next]_vars

\* write-backs over a store whose session calls may raise
InitFaulty ==
    /\ driver = TRUE
    /\ users = Users
    /\ nodes = <<>>
    /\ edges = {}
    /\ cfg = "groq"
    /\ par = [flaky |-> TRUE, labs |-> {"Preference", "Entity"}, track |-> FALSE, sem |-> FALSE, slots |-> 1, plain |-> FALSE]
    /\ g = [w \in 1..par.slots |-> GIdle]
    /\ t = TIdle
    /\ http = "none"
    /\ vec = VIdle
    /\ ctx = CIdle
    /\ sem = SIdle
    /\ llm = LIdle
    /\ hot = HIdle

SpecFaulty == InitFaulty /\ [][Next]_vars

NextOwn == OwnedAdd \/ OwnedSearch

SpecOwn == InitLlm /\ [][NextOwn]_vars

\* save_to_cache(get_query_hash(user_id, message), ...) for one request
KSet ==
    \E uid \in UserIds, m \in Messages :
        /\ hot.key.pc = "idle"
        /\ hot' = [hot EXCEPT !.key = [@ EXCEPT !.pc = "set", !.su = uid, !.sm = m]]
        /\ UNCHANGED <<graph, g, t, http, vec, ctx, sem, llm>>

\* check_cache(get_query_hash(user_id, message)) for a later request: the entry
\* is found when the two fingerprints are the same key
KGet ==
    \E uid \in UserIds, m \in Messages :
        /\ hot.key.pc = "set"
        /\ hot' = [hot EXCEPT !.key = [@ EXCEPT
                      !.pc = "got", !.gu = uid, !.gm = m,
                      !.hit = (GetQueryHash(uid, m) = GetQueryHash(hot.key.su, hot.key.sm))]]
        /\ UNCHANGED <<graph, g, t, http, vec, ctx, sem, llm>>

NextKey == KSet \/ KGet

SpecKey == InitLlm /\ [][NextKey]_vars

NextConc == HTick \/ \E i \in Threads : Conc(i)

SpecConc == InitLlm /\ [][NextConc]_vars

NextParse == LParse

SpecParse == InitLlm /\ [][NextParse]_vars

\* the calls of one process on the cache
InitHot ==
    /\ driver = TRUE
    /\ users = Users
    /\ nodes = <<>>
    /\ edges = {}
    /\ cfg = "groq"
    /\ par = [flaky |-> FALSE, labs |-> Labels, track |-> FALSE, sem |-> FALSE, slots |-> 1, plain |-> FALSE]
    /\ g = [w \in 1..par.slots |-> GIdle]
    /\ t = TIdle
    /\ http = "none"
    /\ vec = VIdle
    /\ ctx = CIdle
    /\ sem = SIdle
    /\ llm = LIdle
    /\ hot = HIdle

NextHot == HSet \/ HGet \/ HIncr \/ HTop \/ HTick

SpecHot == InitHot /\ [][NextHot]_vars

\* ====================================================== the claims

\* no write-back is under way
Quiet == \A w \in Slots : g[w].pc \in {"idle", "done", "raised"}

\* the active nodes of label l with natural key k that user u owns
ActiveKeyed(u, l, k) == {i \in ActiveOf(u, l) : nodes[i].key = k}

\* C1: after any sequence of write-backs that do not overlap, the graph holds at
\* most one active node per (owner user, label, natural key)
C1_OneActivePerKey ==
    Quiet => \A u \in Users, l \in Labels, k \in Keys :
                Cardinality(ActiveKeyed(u, l, k)) <= 1

\* C2: when two successive write-backs of a user each write a Fact with the same
\* statement, exactly one active Fact node with that statement exists for the
\* user afterwards
C2_FactWrittenTwice ==
    \A w \in Slots :
        (/\ g[w].pc = "done"
         /\ g[w].user \in users
         /\ g[w].pure > 0
         /\ g[w].prev = g[w].pure)
        => Cardinality(ActiveKeyed(g[w].user, "Fact", g[w].pure)) = 1

\* C3: a node that supersede_node retired (it has a valid-until time) is
\* obsolete and no comprehensive active-node query returns it
C3_SupersededStaysHidden ==
    \A i \in NodeIdx :
        nodes[i].vu => /\ nodes[i].status = "obsolete"
                       /\ \A u \in Users : i \notin ComprehensiveQuery(u)

\* C4: when the MERGE of a Preference, Constraint, Instruction or Commitment whose
\* name is that of an active node of the user under another id has been
\* processed, the user's active nodes of that name are the new node alone
C4_NewReplacesOld ==
    [][\A w \in Slots :
         LET c == g[w].cand
             u == g[w].user
         IN  (/\ g[w].pc \in {"link", "sup"}
              /\ g'[w].pc = "next"
              /\ c.label \in NamedLabels
              /\ c.key # 0
              /\ \E i \in ActiveKeyed(u, c.label, c.key) : nodes[i].id # c.id)
             => /\ \E i \in NodeIdx :
                     /\ nodes'[i].id = c.id
                     /\ nodes'[i].label = c.label
                     /\ nodes'[i].status = "active"
                     /\ [t |-> "HAS", s |-> 0 - u, d |-> i] \in edges'
                /\ \A i \in NodeIdx :
                     (/\ nodes'[i].label = c.label
                      /\ nodes'[i].key = c.key
                      /\ nodes'[i].id # c.id
                      /\ [t |-> "HAS", s |-> 0 - u, d |-> i] \in edges')
                     => nodes'[i].status = "obsolete"]_vars

\* C5: when a turn of a user has ended, its comprehensive graph query has
\* returned every active node the user owns
C5_WrittenNodeReturned ==
    t.pc \in {"completed", "error"} => ComprehensiveQuery(t.user) \subseteq t.graph

\* the log entries a stage writes
LogKeys(stage) ==
    CASE stage = "temporal" -> {"step0"}
      [] stage = "planner" -> {"step1"}
      [] stage = "retrieval" -> {"step2", "step2_graph_error"}
      [] stage = "recon" -> {"step3"}
      [] stage = "synth" -> {"step4"}
      [] stage = "response" -> {"step5"}

\* the entry a stage that completed has always written
LogKey(stage) ==
    CASE stage = "temporal" -> "step0"
      [] stage = "planner" -> "step1"
      [] stage = "retrieval" -> "step2"
      [] stage = "recon" -> "step3"
      [] stage = "synth" -> "step4"
      [] stage = "response" -> "step5"

\* the stages of the turn that ran to their end: in Error the last one is the
\* stage that failed
Completed(s) ==
    IF s.pc = "error" THEN SubSeq(s.ran, 1, Len(s.ran) - 1) ELSE s.ran

\* C6: of two returned chunks whose similarity ratio exceeds 0.85 at most one is
\* in the output of the vector search
C6_NoSimilarPairSurvives ==
    \A x, y \in {vec.out[i] : i \in DOMAIN vec.out} :
        x # y => ~vec.sim[<<x, y>>]

\* the section headers, top to bottom
HeaderOrder == <<"preferences", "facts", "entities", "constraints", "commitments",
                 "instructions", "semantic">>

Rank(k) == CHOOSE i \in DOMAIN HeaderOrder : HeaderOrder[i] = k

\* C7: the context has every section, the sections stand in the order Preferences,
\* Facts, Entities, Constraints, Commitments, Instructions, Semantic Memory, no
\* line is the line of a node the graph results hold as obsolete only, and the
\* same inputs render the same context
C7_ReconciliationOrderAndFilter ==
    ctx.out # <<>> =>
        /\ \A k \in {HeaderOrder[i] : i \in DOMAIN HeaderOrder} :
              \E i \in DOMAIN ctx.out : ctx.out[i] = Header(k)
        /\ \A i, j \in DOMAIN ctx.out :
              i < j => Rank(ctx.out[i].sec) <= Rank(ctx.out[j].sec)
        /\ \A i \in DOMAIN ctx.out :
              ctx.out[i].line = "node" =>
                    \E n \in DOMAIN ctx.rows[1][ctx.out[i].sec] :
                       LET node == ctx.rows[1][ctx.out[i].sec][n]
                       IN  node # None /\ node.id = ctx.out[i].id /\ node.status # "obsolete"
        /\ ctx.again # <<>> => ctx.again = ctx.out

C7_Witness ==
    /\ ctx.rows # <<>>
    /\ \E n \in DOMAIN ctx.rows[1]["facts"] :
          ctx.rows[1]["facts"][n].status = "obsolete"
    /\ \E i \in DOMAIN ctx.out : ctx.out[i].sec = "facts" /\ ctx.out[i].line = "node"
    /\ ctx.again = ctx.out

C10_GardenerNeverRaises == \A w \in Slots : g[w].pc # "raised"

\* C12: a call of a cloud provider whose backend answers the first attempt with
\* a rate-limit error returns after that one attempt, with the provider's fixed
\* text from generate_text and with {} from generate_json
C12_RateLimitNotRetried ==
    (/\ llm.pc \in {"attempt", "returned", "raised"}
     /\ llm.prov \in Cloud
     /\ llm.cond[1] = "429"
     /\ llm.attempts > 0) =>
        /\ llm.pc = "returned"
        /\ llm.attempts = 1
        /\ llm.result = IF llm.op = "json" THEN "empty"
                        ELSE IF llm.prov = "gemini" THEN "quota" ELSE "interrupted"

C12_Witness ==
    /\ llm.pc = "returned" /\ llm.prov = "gemini" /\ llm.op = "text"
    /\ llm.cond[1] = "429" /\ llm.result = "quota"

\* C13: a call of a cloud provider whose backend fails the first attempt with an error that is no
\* rate limit and answers the second attempt returns that answer, after two
\* attempts
C13_TransientErrorRetried ==
    (/\ llm.pc \in {"returned", "raised"}
     /\ llm.prov \in Cloud
     /\ llm.op = "text"
     /\ llm.cond[1] = "err" /\ llm.cond[2] = "ok") =>
        /\ llm.pc = "returned"
        /\ llm.attempts = 2
        /\ llm.result = llm.out

\* C14: generate_json of every provider returns, and what it returns is an object
C14_JsonAlwaysObject ==
    (llm.op = "json" /\ llm.pc \in {"returned", "raised"}) =>
        llm.pc = "returned" /\ llm.result \in {"object", "empty"}

\* C15: without a graph driver a turn is not ended by its retrieval stage
C15_TurnRunsWithoutGraph ==
    (~driver /\ t.pc = "error" /\ Len(t.ran) > 0) =>
        t.ran[Len(t.ran)] # "retrieval"

C11_ErrorTurnsNotPersisted ==
    [][\A w \in Slots :
          (g'[w].deg /\ g'[w] # g[w]) =>
              /\ g[w].pc \in {"idle", "done", "raised"}
              /\ g'[w].pc = "done"
              /\ sem'.wrote = "none"
              /\ nodes' = nodes /\ edges' = edges /\ users' = users]_vars

C11_Witness ==
    \E w \in Slots : g[w].deg /\ g[w].pc = "done" /\ Len(nodes) > 0

\* C17: an extraction result with significance below 6, or with should_save false
\* or absent, ends the write-back at the gate with the graph as it was: no node
\* created, updated, archived or superseded, no edge created
C17_GateSkipsGraph ==
    [][\A w \in Slots :
          (/\ g[w].pc = "gate"
           /\ g[w].upd.kind = "dict"
           /\ (g[w].upd.sig < 6 \/ ~g[w].upd.save)) =>
              /\ g'[w].pc = "done"
              /\ nodes' = nodes /\ edges' = edges /\ users' = users]_vars

C17_Witness ==
    \E w \in Slots :
        /\ g[w].pc = "done" /\ g[w].upd.kind = "dict"
        /\ g[w].upd.sig = 5 /\ g[w].upd.save
        /\ Len(nodes) > 0

\* C18: the vector store is written only when the filter reports meaningful
\* content with a non-empty summary, the summary is no chunk of the retrieved
\* context, and the nearest neighbour is neither equal nor closer than 0.5; what
\* is written is the summary
C18_FilteredChunkWrite ==
    sem.wrote # "none" =>
        /\ sem.meaningful
        /\ sem.summary = "summary"
        /\ ~sem.inctx
        /\ sem.nn \notin {"exact", "near"}
        /\ sem.wrote = "summary"

C18_Witness == sem.wrote = "summary" /\ sem.nn = "far"

\* C19: the set of (label, id) pairs of the nodes never loses an element
C19_NodeIdsNeverShrink ==
    [][{<<nodes[i].label, nodes[i].id>> : i \in DOMAIN nodes}
          \subseteq {<<nodes'[i].label, nodes'[i].id>> : i \in DOMAIN nodes'}]_vars

\* C20: a chat request never ends in an unhandled fault
C20_ChatRequestAnswered == http # "unhandled"

\* C21: a get on a key returns the payload of the key's last set, as it is or
\* as it reads back from its JSON text, while the ttl of that set has not
\* elapsed, and absent afterwards, in both objects
C21_CacheTtl ==
    \A m \in Modes :
        (hot.call.op = "get" /\ hot.last[hot.call.fp] # NoSet) =>
            LET s == hot.last[hot.call.fp]
            IN  IF hot.now < s.at + s.ttl
                THEN \/ hot.inst[m].ret = s.p
                     \/ ~DumpsRaises(s.p) /\ hot.inst[m].ret = Loads(Dumps(s.p))
                ELSE hot.inst[m].ret = NoPayload

\* C22: the two objects return the same values to the same calls
C22_TiersAgree ==
    /\ hot.inst["up"].ret = hot.inst["down"].ret
    /\ hot.inst["up"].top = hot.inst["down"].top

\* C23: no step of a turn changes the nodes, the edges or what the write-back
\* put into the vector store
C23_TurnOnlyReads ==
    [][t' # t => /\ nodes' = nodes
                 /\ edges' = edges
                 /\ sem' = sem]_vars

C23_Witness ==
    /\ t.pc = "error" /\ Len(t.ran) = 3
    /\ Len(nodes) > 0 /\ nodes[1].status = "active"

C25_SupersedeAtomic ==
    \A i \in NodeIdx :
        /\ (nodes[i].vu /\ nodes[i].status = "obsolete") =>
               \E e \in edges : e.t = "SUPERSEDES" /\ e.d = i
        /\ (\E e \in edges : e.t = "SUPERSEDES" /\ e.d = i) =>
               nodes[i].status # "active"

RECURSIVE ReferenceKept(_, _, _)
ReferenceKept(sim, flat, n) ==
    IF n = 0 THEN {}
    ELSE LET K == ReferenceKept(sim, flat, n - 1)
         IN  IF \E j \in K : flat[j] = flat[n] \/ sim[<<flat[n], flat[j]>>]
             THEN K ELSE K \cup {n}

\* the chunks at the positions K, in increasing order of position
RECURSIVE InOrder(_, _)
InOrder(flat, K) ==
    IF K = {} THEN <<>>
    ELSE LET m == CHOOSE i \in K : \A j \in K : i <= j
         IN  <<flat[m]>> \o InOrder(flat, K \ {m})

\* C27: the retrieval output is the reference greedy procedure: the terms in
\* order, each term's results in rank order, a chunk skipped when its id was
\* accepted, dropped when it is similar to an accepted chunk, the first 10
\* accepted kept; hence at most 10 chunks, no id twice, retrieval order kept,
\* and a chunk similar to an accepted earlier one never accepted
C27_GreedyRetrieval ==
    (vec.store = <<>> /\ vec.res # <<>>) =>
        LET flat == Flatten(vec.res)
            K == ReferenceKept(vec.sim, flat, Len(flat))
            ref == InOrder(flat, K)
            First(c) == CHOOSE i \in DOMAIN flat :
                            flat[i] = c /\ \A j \in DOMAIN flat : flat[j] = c => i <= j
        IN  /\ vec.out = SubSeq(ref, 1, IF Len(ref) < 10 THEN Len(ref) ELSE 10)
            /\ Len(vec.out) <= 10
            /\ \A i, j \in DOMAIN vec.out : i # j => vec.out[i] # vec.out[j]
            /\ \A i \in DOMAIN vec.out : \E j \in DOMAIN flat : flat[j] = vec.out[i]
            /\ \A i, j \in DOMAIN vec.out :
                   i < j => First(vec.out[i]) < First(vec.out[j])
            /\ \A i, j \in DOMAIN flat :
                   (i < j /\ i \in K /\ vec.sim[<<flat[j], flat[i]>>]) => j \notin K

\* a search whose accepted chunks exceed the cut, with one chunk skipped for
\* its id and one dropped for its similarity to an earlier accepted chunk
C27_Witness ==
    /\ vec.store = <<>>
    /\ vec.res # <<>>
    /\ LET flat == Flatten(vec.res)
           K == ReferenceKept(vec.sim, flat, Len(flat))
       IN  /\ Cardinality(K) > 10
           /\ Len(vec.out) = 10
           /\ \E i, j \in DOMAIN flat : i < j /\ i \in K /\ flat[i] = flat[j]
           /\ \E i, j \in DOMAIN flat :
                  /\ i < j /\ i \in K /\ flat[i] # flat[j]
                  /\ vec.sim[<<flat[j], flat[i]>>]
                  /\ \A h \in DOMAIN flat : (h < j /\ h \in K) => flat[h] # flat[j]

\* C28: every node kept from the graph row is rendered once, in the section
\* of its own category and in the order of the row, for each of the six
\* categories, and a category without a node renders its one fixed line
C28_EveryNodeRendered ==
    ctx.out # <<>> =>
        LET sg == StructuredGraph(ctx.rows)
        IN  \A i \in DOMAIN Sections :
                LET k == Sections[i]
                    body == SelectSeq(ctx.out, LAMBDA x : x.sec = k /\ x.line # "header")
                IN  IF sg[k] = <<>>
                    THEN body = <<[sec |-> k, line |-> "none", id |-> 0]>>
                    ELSE body = [j \in DOMAIN sg[k] |->
                                    [sec |-> k, line |-> "node", id |-> sg[k][j].id]]

\* C29: the output of the temporal check does not branch the turn: from one
\* state, two runs of Step 0 that differ only in the dict the check returned
\* (is_override true or false, conflict_summary present or absent) run the
\* same stages and go on to the same stage
C29_TemporalNeverBranches ==
    t.pc = "temporal" =>
        \A o1 \in BOOLEAN, o2 \in BOOLEAN, s1 \in BOOLEAN, s2 \in BOOLEAN :
            LET a == TemporalStage(t, "dict", o1, s1)
                b == TemporalStage(t, "dict", o2, s2)
            IN  a.pc = b.pc /\ a.ran = b.ran

\* C30: in one batch the relationships of the extraction are created after
\* all its node writes: once create_relationship was called for a relationship
\* of the batch, the batch is in its relationship loop or over, and no later
\* step of the batch archives, updates, creates or supersedes a node
C30_RelationshipsAfterNodes ==
    [][\A w \in Slots :
          /\ g'[w].rel => g'[w].pc \in {"rels", "done"}
          /\ (g[w].rel /\ g'[w].rel) => nodes' = nodes]_vars

\* a batch that created and linked a node and then reached its relationships
C30_Witness ==
    \E w \in Slots :
        /\ g[w].rel
        /\ g[w].pc = "done"
        /\ \E i \in DOMAIN nodes : \E e \in edges : e.t = "HAS" /\ e.d = i

\* the parse the contract describes: the fences at both ends are stripped and
\* the text parsed; failing that, the text from the first "{" to the last "}"
\* is parsed; failing that, the empty object
C31_Reference(text) ==
    LET t1 == IF text # <<>> /\ text[1] \in {"fence_json", "fence"} THEN Tail(text) ELSE text
        t2 == IF t1 # <<>> /\ t1[Len(t1)] = "fence" THEN SubSeq(t1, 1, Len(t1) - 1) ELSE t1
        sub == IF Find(t2) # 0 THEN SubSeq(t2, Find(t2), RFind(t2)) ELSE <<>>
    IN  IF WellFormed(t2) THEN t2
        ELSE IF WellFormed(sub) THEN sub
        ELSE EmptyObject

\* C31: for every provider, generate_json returns the strict parse of the
\* answered text without its fences, else the parse of the text from the first
\* "{" to the last "}", else the empty object
C31_JsonRecovered ==
    llm.pc = "parsed" => llm.value = C31_Reference(llm.text)

\* C32: concurrent gets on the cache never fail and return the stored payload
\* or nothing, also two gets on one fingerprint whose entry has just expired
C32_ConcurrentGetsNeverFail ==
    \A i \in Threads :
        /\ hot.conc.th[i].pc # "failed"
        /\ hot.conc.th[i].ret # NoPayload => hot.conc.th[i].ret = hot.conc.th[i].entry.data

\* C33: when every generation call and every store call returns, a turn that
\* has begun reaches completed or error, and a write-back that has begun
\* finishes
C33_TurnsAndWriteBacksEnd ==
    /\ (t.pc \in {Stages[i] : i \in DOMAIN Stages}) ~> (t.pc \in {"completed", "error"})
    /\ \A w \in Single :
          (g[w].pc \notin {"idle", "done", "raised"}) ~> (g[w].pc \in {"done", "raised"})

\* a write-back that went through its node loop, left a node obsolete, went
\* through its relationship loop and finished
C33_Witness ==
    \E w \in Single :
        /\ g[w].pc = "done"
        /\ g[w].rel
        /\ \E i \in DOMAIN nodes : nodes[i].status = "obsolete"

\* C34: the chunks a turn of a user accepts, which are the chunks of its
\* rendered context and of the context handed to its write-back, are chunks
\* that were written for that user
C34_OnlyOwnChunks ==
    \A i \in DOMAIN vec.out : vec.owner[vec.out[i]] = vec.user

\* C35: no step of a write-back of a user changes the status or a property of
\* a node that is linked to another user and not to the user of the write-back
C35_OtherUsersNodesUntouched ==
    [][\A w \in Slots : \A i \in DOMAIN nodes :
          (/\ g[w].pc \notin {"idle", "done", "raised"}
           /\ \E e \in edges : e.t = "HAS" /\ e.d = i /\ e.s < 0 /\ e.s # 0 - g[w].user
           /\ ~\E e \in edges : e.t = "HAS" /\ e.d = i /\ e.s = 0 - g[w].user)
              => nodes'[i] = nodes[i]]_vars

\* C36: a node that is obsolete stays obsolete in every later step
C36_ObsoleteIsTerminal ==
    [][\A i \in DOMAIN nodes :
          nodes[i].status = "obsolete" => nodes'[i].status = "obsolete"]_vars

\* C37: while a write-back replaces the node it found under a natural key,
\* after each of its steps (create, link, supersede) an active node with that
\* key is linked to the user, also when a step fails
C37_AlwaysOneActive ==
    [][\A w \in Slots :
          (/\ g[w].pc \in {"add", "link", "sup"}
           /\ g[w].old # 0
           /\ g[w].cand.label \in NamedLabels
           /\ ActiveKeyed(g[w].user, g[w].cand.label, g[w].cand.key) # {})
              => ActiveKeyed(g[w].user, g[w].cand.label, g[w].cand.key)' # {}]_vars

\* C38: the update of an Entity found by name leaves the node its id and its
\* link to the user, and creates no node and no edge
C38_EntityUpdatedInPlace ==
    [][\A w \in Slots :
          (g[w].pc = "update" /\ g'[w].pc = "next") =>
              /\ Len(nodes') = Len(nodes)
              /\ \A i \in DOMAIN nodes : nodes'[i].id = nodes[i].id
              /\ edges' = edges]_vars

\* C39: a get finds the entry of a set only for the same user id and the same
\* message after trimming and lower-casing
C39_KeyedByUserAndMessage ==
    (hot.key.pc = "got" /\ hot.key.hit) =>
        /\ hot.key.gu = hot.key.su
        /\ Normalized(hot.key.gm) = Normalized(hot.key.sm)

====
